---- MODULE Spec2Model ----
(***************************************************************************)
(* Model of src/contracts/interaction.rs: the two entry points             *)
(* call_contract_function and fetch_contract_data, their validation        *)
(* checks, the events they hand to the process-wide logger, and the        *)
(* value they return.  Each invocation is a process that walks through     *)
(* the statements of the function; the logger is the only shared state.    *)
(***************************************************************************)
EXTENDS Integers, Sequences, FiniteSets, TLC

(***************************************************************************)
(* Bounds                                                                  *)
(***************************************************************************)
MaxStrLen == 2
MaxParams == 1
NumProcs == 2

(***************************************************************************)
(* Data: &str / String are sequences of characters, Vec<String> is a       *)
(* sequence of strings, u64 is four 16-bit limbs (most significant first). *)
(***************************************************************************)
Alphabet == {"0", "x", " "}

StringsUpTo(n) == UNION {[1..k -> Alphabet] : k \in 0..n}

Strings == StringsUpTo(MaxStrLen)

ParamStrings == StringsUpTo(1)

ParamLists == UNION {[1..k -> ParamStrings] : k \in 0..MaxParams}

LimbMax == 65535

U64Zero == <<0, 0, 0, 0>>

U64Thousand == <<0, 0, 0, 1000>>

U64Max == <<LimbMax, LimbMax, LimbMax, LimbMax>>

GasLimits == {U64Zero, U64Thousand, U64Max}

is_empty(s) == Len(s) = 0

InteractionError == {"InvalidContractAddress", "InvalidFunctionName", "DataKeyNotFound"}

Ok(v) == [tag |-> "Ok", val |-> v]

Err(e) == [tag |-> "Err", val |-> e]

NoResult == [tag |-> "None", val |-> ""]

ErrorEvent(msg) == [level |-> "error", msg |-> msg, fmt |-> <<>>]

InfoEvent(msg, fmtargs) == [level |-> "info", msg |-> msg, fmt |-> fmtargs]

CallSuccessText == "Function call executed successfully."

FetchSuccessText == "Data fetched successfully."

(***************************************************************************)
(* The two functions run to completion by one caller: the value returned   *)
(* and the events logged, in order.                                        *)
(***************************************************************************)
call_contract_function(contract_address, function_name, params, gas_limit) ==
    IF is_empty(contract_address)
    THEN [result |-> Err("InvalidContractAddress"),
          events |-> <<ErrorEvent("Invalid contract address provided.")>>]
    ELSE IF is_empty(function_name)
    THEN [result |-> Err("InvalidFunctionName"),
          events |-> <<ErrorEvent("Invalid function name provided.")>>]
    ELSE [result |-> Ok(CallSuccessText),
          events |-> <<InfoEvent("Calling function '{}' on contract '{}' with gas limit {}...",
                                 <<function_name, contract_address, gas_limit>>)>>]

fetch_contract_data(contract_address, data_key) ==
    IF is_empty(contract_address)
    THEN [result |-> Err("InvalidContractAddress"),
          events |-> <<ErrorEvent("Invalid contract address provided.")>>]
    ELSE IF is_empty(data_key)
    THEN [result |-> Err("DataKeyNotFound"),
          events |-> <<ErrorEvent("Data key not found.")>>]
    ELSE [result |-> Ok(FetchSuccessText),
          events |-> <<InfoEvent("Fetching data '{}' from contract '{}'...",
                                 <<data_key, contract_address>>)>>]

(***************************************************************************)
(* Arguments of one invocation.  A fetch has no params and no gas_limit;   *)
(* the record keeps the two fields at fixed values so that every           *)
(* invocation has the same shape.                                          *)
(***************************************************************************)
CallArgs(a, f, ps, g) ==
    [op |-> "call", contract_address |-> a, name |-> f, params |-> ps, gas_limit |-> g]

FetchArgs(a, k) ==
    [op |-> "fetch", contract_address |-> a, name |-> k, params |-> <<>>, gas_limit |-> U64Zero]

NoArgs == [op |-> "none", contract_address |-> <<>>, name |-> <<>>, params |-> <<>>, gas_limit |-> U64Zero]

AllCallArgs == {CallArgs(a, f, ps, g) : a \in Strings, f \in Strings, ps \in ParamLists, g \in GasLimits}

AllFetchArgs == {FetchArgs(a, k) : a \in Strings, k \in Strings}

\* Arguments used when several invocations run concurrently: every
\* combination of empty / non-empty address and name, two params lists and
\* the two extreme gas limits.
ConcCallArgs == {CallArgs(a, f, ps, g) : a \in {<<>>, <<"0", "x">>}, f \in {<<>>, <<"x">>},
                                         ps \in {<<>>, <<<<"0">>>>}, g \in {U64Zero, U64Max}}

ConcFetchArgs == {FetchArgs(a, k) : a \in {<<>>, <<"0", "x">>}, k \in {<<>>, <<"x">>, <<"0">>}}

Procs == 1..NumProcs

Caller == CHOOSE p \in Procs : \A q \in Procs : p <= q

VARIABLES pc, args, result, log

vars == <<pc, args, result, log>>

Init ==
    /\ pc = [p \in Procs |-> "idle"]
    /\ args = [p \in Procs |-> NoArgs]
    /\ result = [p \in Procs |-> NoResult]
    /\ log = <<>>

Emit(p, ev) == Append(log, [by |-> p, ev |-> ev])

(***************************************************************************)
(* call_contract_function, statement by statement                          *)
(***************************************************************************)
CallInvoke(p, choices) ==
    /\ pc[p] = "idle"
    /\ \E a \in choices : a.op = "call" /\ args' = [args EXCEPT ![p] = a]
    /\ pc' = [pc EXCEPT ![p] = "check_address"]
    /\ UNCHANGED <<result, log>>

\* Variant: the function-name check placed before the address check.
CallCheckAddress_NameFirst(p) ==
    /\ pc[p] = "check_address"
    /\ args[p].op = "call"
    /\ pc' = [pc EXCEPT ![p] = IF is_empty(args[p].name) THEN "error_name"
                                ELSE IF is_empty(args[p].contract_address)
                                THEN "error_address" ELSE "check_name"]
    /\ UNCHANGED <<args, result, log>>

\* Variant: the address is read from a slot shared by all invocations.
CallCheckAddress_Shared(p) ==
    /\ pc[p] = "check_address"
    /\ args[p].op = "call"
    /\ pc' = [pc EXCEPT ![p] = IF is_empty(args[Caller].contract_address)
                                THEN "error_address" ELSE "check_name"]
    /\ UNCHANGED <<args, result, log>>

CallCheckAddress(p) ==
    /\ pc[p] = "check_address"
    /\ args[p].op = "call"
    /\ pc' = [pc EXCEPT ![p] = IF is_empty(args[p].contract_address)
                                THEN "error_address" ELSE "check_name"]
    /\ UNCHANGED <<args, result, log>>

\* Variant: the early return after the address error is missing.
CallErrorAddress_FallThrough(p) ==
    /\ pc[p] = "error_address"
    /\ args[p].op = "call"
    /\ log' = Emit(p, ErrorEvent("Invalid contract address provided."))
    /\ pc' = [pc EXCEPT ![p] = "check_name"]
    /\ UNCHANGED <<args, result>>

CallErrorAddress(p) ==
    /\ pc[p] = "error_address"
    /\ args[p].op = "call"
    /\ log' = Emit(p, ErrorEvent("Invalid contract address provided."))
    /\ result' = [result EXCEPT ![p] = Err("InvalidContractAddress")]
    /\ pc' = [pc EXCEPT ![p] = "done"]
    /\ UNCHANGED args

\* Variant: the function-name check is missing.
CallCheckName_Skipped(p) ==
    /\ pc[p] = "check_name"
    /\ args[p].op = "call"
    /\ pc' = [pc EXCEPT ![p] = "info"]
    /\ UNCHANGED <<args, result, log>>

CallCheckName(p) ==
    /\ pc[p] = "check_name"
    /\ args[p].op = "call"
    /\ pc' = [pc EXCEPT ![p] = IF is_empty(args[p].name)
                                THEN "error_name" ELSE "info"]
    /\ UNCHANGED <<args, result, log>>

CallErrorName(p) ==
    /\ pc[p] = "error_name"
    /\ args[p].op = "call"
    /\ log' = Emit(p, ErrorEvent("Invalid function name provided."))
    /\ result' = [result EXCEPT ![p] = Err("InvalidFunctionName")]
    /\ pc' = [pc EXCEPT ![p] = "done"]
    /\ UNCHANGED args

\* Variant: the info! statement is missing.
CallInfo_Silent(p) ==
    /\ pc[p] = "info"
    /\ args[p].op = "call"
    /\ pc' = [pc EXCEPT ![p] = "return_ok"]
    /\ UNCHANGED <<args, result, log>>

CallInfo(p) ==
    /\ pc[p] = "info"
    /\ args[p].op = "call"
    /\ log' = Emit(p, InfoEvent("Calling function '{}' on contract '{}' with gas limit {}...",
                                <<args[p].name, args[p].contract_address, args[p].gas_limit>>))
    /\ pc' = [pc EXCEPT ![p] = "return_ok"]
    /\ UNCHANGED <<args, result>>

\* Variant: a gas_limit of zero is rejected.
CallReturnOk_GasChecked(p) ==
    /\ pc[p] = "return_ok"
    /\ args[p].op = "call"
    /\ result' = [result EXCEPT ![p] = IF args[p].gas_limit = U64Zero
                                        THEN Err("InvalidFunctionName")
                                        ELSE Ok(CallSuccessText)]
    /\ pc' = [pc EXCEPT ![p] = "done"]
    /\ UNCHANGED <<args, log>>

CallReturnOk(p) ==
    /\ pc[p] = "return_ok"
    /\ args[p].op = "call"
    /\ result' = [result EXCEPT ![p] = Ok(CallSuccessText)]
    /\ pc' = [pc EXCEPT ![p] = "done"]
    /\ UNCHANGED <<args, log>>

(***************************************************************************)
(* fetch_contract_data, statement by statement                             *)
(***************************************************************************)
FetchInvoke(p, choices) ==
    /\ pc[p] = "idle"
    /\ \E a \in choices : a.op = "fetch" /\ args' = [args EXCEPT ![p] = a]
    /\ pc' = [pc EXCEPT ![p] = "check_address"]
    /\ UNCHANGED <<result, log>>

FetchCheckAddress(p) ==
    /\ pc[p] = "check_address"
    /\ args[p].op = "fetch"
    /\ pc' = [pc EXCEPT ![p] = IF is_empty(args[p].contract_address)
                                THEN "error_address" ELSE "check_name"]
    /\ UNCHANGED <<args, result, log>>

\* Variant: the error is returned without the error! statement.
FetchErrorAddress_Silent(p) ==
    /\ pc[p] = "error_address"
    /\ args[p].op = "fetch"
    /\ result' = [result EXCEPT ![p] = Err("InvalidContractAddress")]
    /\ pc' = [pc EXCEPT ![p] = "done"]
    /\ UNCHANGED <<args, log>>

FetchErrorAddress(p) ==
    /\ pc[p] = "error_address"
    /\ args[p].op = "fetch"
    /\ log' = Emit(p, ErrorEvent("Invalid contract address provided."))
    /\ result' = [result EXCEPT ![p] = Err("InvalidContractAddress")]
    /\ pc' = [pc EXCEPT ![p] = "done"]
    /\ UNCHANGED args

FetchCheckKey(p) ==
    /\ pc[p] = "check_name"
    /\ args[p].op = "fetch"
    /\ pc' = [pc EXCEPT ![p] = IF is_empty(args[p].name)
                                THEN "error_name" ELSE "info"]
    /\ UNCHANGED <<args, result, log>>

\* Variant: the key error returns the kind of the address error.
FetchErrorKey_WrongKind(p) ==
    /\ pc[p] = "error_name"
    /\ args[p].op = "fetch"
    /\ log' = Emit(p, ErrorEvent("Data key not found."))
    /\ result' = [result EXCEPT ![p] = Err("InvalidContractAddress")]
    /\ pc' = [pc EXCEPT ![p] = "done"]
    /\ UNCHANGED args

FetchErrorKey(p) ==
    /\ pc[p] = "error_name"
    /\ args[p].op = "fetch"
    /\ log' = Emit(p, ErrorEvent("Data key not found."))
    /\ result' = [result EXCEPT ![p] = Err("DataKeyNotFound")]
    /\ pc' = [pc EXCEPT ![p] = "done"]
    /\ UNCHANGED args

FetchInfo(p) ==
    /\ pc[p] = "info"
    /\ args[p].op = "fetch"
    /\ log' = Emit(p, InfoEvent("Fetching data '{}' from contract '{}'...",
                                <<args[p].name, args[p].contract_address>>))
    /\ pc' = [pc EXCEPT ![p] = "return_ok"]
    /\ UNCHANGED <<args, result>>

FetchReturnOk(p) ==
    /\ pc[p] = "return_ok"
    /\ args[p].op = "fetch"
    /\ result' = [result EXCEPT ![p] = Ok(FetchSuccessText)]
    /\ pc' = [pc EXCEPT ![p] = "done"]
    /\ UNCHANGED <<args, log>>

Step(p) ==
    \/ CallCheckAddress(p)
    \/ CallErrorAddress(p)
    \/ CallCheckName(p)
    \/ CallErrorName(p)
    \/ CallInfo(p)
    \/ CallReturnOk(p)
    \/ FetchCheckAddress(p)
    \/ FetchErrorAddress(p)
    \/ FetchCheckKey(p)
    \/ FetchErrorKey(p)
    \/ FetchInfo(p)
    \/ FetchReturnOk(p)

\* One caller, one invocation, any arguments.
Next ==
    \/ CallInvoke(Caller, AllCallArgs)
    \/ FetchInvoke(Caller, AllFetchArgs)
    \/ Step(Caller)

Spec == Init /\ [][Next]_vars

\* NumProcs callers, each running one invocation, interleaved statement by
\* statement.
NextConc ==
    \/ \E p \in Procs : CallInvoke(p, ConcCallArgs)
    \/ \E p \in Procs : FetchInvoke(p, ConcFetchArgs)
    \/ \E p \in Procs : Step(p)

SpecConc == Init /\ [][NextConc]_vars

(***************************************************************************)
(* Derived state                                                           *)
(***************************************************************************)
Done(p) == pc[p] = "done"

IsCall(p) == args[p].op = "call"

IsFetch(p) == args[p].op = "fetch"

EventsBy(p) == SelectSeq(log, LAMBDA e : e.by = p)

Emitted(p, level) == {i \in 1..Len(log) : log[i].by = p /\ log[i].ev.level = level}

TypeOK ==
    /\ pc \in [Procs -> {"idle", "check_address", "error_address", "check_name",
                         "error_name", "info", "return_ok", "done"}]
    /\ \A p \in Procs : result[p].tag \in {"None", "Ok", "Err"}
    /\ \A p \in Procs : result[p].tag = "Err" => result[p].val \in InteractionError
    /\ Len(log) <= NumProcs

FirstArg(p) == args[p].contract_address

SecondArg(p) == args[p].name

\* The value and the events of the invocation when it runs alone.
RunAlone(a) ==
    IF a.op = "call"
    THEN call_contract_function(a.contract_address, a.name, a.params, a.gas_limit)
    ELSE fetch_contract_data(a.contract_address, a.name)

(***************************************************************************)
(* C1: a finished call_contract_function whose contract_address is empty   *)
(* has returned Err(InvalidContractAddress), whatever function_name (the   *)
(* empty one included), params and gas_limit are.                          *)
(***************************************************************************)
C1_EmptyAddressRejected ==
    \A p \in Procs :
        (Done(p) /\ IsCall(p) /\ is_empty(FirstArg(p)))
            => result[p] = Err("InvalidContractAddress")

C1_Witness ==
    \E p \in Procs :
        /\ Done(p) /\ IsCall(p)
        /\ is_empty(FirstArg(p)) /\ is_empty(SecondArg(p))
        /\ args[p].gas_limit = U64Max
        /\ result[p] = Err("InvalidContractAddress")

(***************************************************************************)
(* C2: a finished call_contract_function whose contract_address is not     *)
(* empty and whose function_name is empty has returned                     *)
(* Err(InvalidFunctionName), whatever params and gas_limit are.            *)
(***************************************************************************)
C2_EmptyFunctionNameRejected ==
    \A p \in Procs :
        (Done(p) /\ IsCall(p) /\ ~is_empty(FirstArg(p)) /\ is_empty(SecondArg(p)))
            => result[p] = Err("InvalidFunctionName")

C2_Witness ==
    \E p \in Procs :
        /\ Done(p) /\ IsCall(p)
        /\ FirstArg(p) = <<"0", "x">> /\ is_empty(SecondArg(p))
        /\ args[p].params # <<>>
        /\ result[p] = Err("InvalidFunctionName")

GrammarValid(s) == ~is_empty(s) /\ \A i \in 1..Len(s) : s[i] # " "

KindOfSecondArg(p) == IF IsCall(p) THEN "InvalidFunctionName" ELSE "DataKeyNotFound"

C4_Original ==
    \A p \in Procs :
        Done(p) =>
            /\ (result[p].tag = "Ok") <=> (GrammarValid(FirstArg(p)) /\ GrammarValid(SecondArg(p)))
            /\ ~GrammarValid(FirstArg(p)) => result[p] = Err("InvalidContractAddress")
            /\ (GrammarValid(FirstArg(p)) /\ ~GrammarValid(SecondArg(p)))
                   => result[p] = Err(KindOfSecondArg(p))

(***************************************************************************)
(* C5 (as stated): a finished invocation has emitted an info event, and a  *)
(* finished invocation that failed validation has also emitted an error    *)
(* event.                                                                  *)
(***************************************************************************)
C5_Original ==
    \A p \in Procs :
        Done(p) =>
            /\ Emitted(p, "info") # {}
            /\ result[p].tag = "Err" => Emitted(p, "error") # {}

(***************************************************************************)
(* C5 (amended): a finished invocation that passed validation has emitted  *)
(* one info event and no error event, and a finished invocation that       *)
(* failed validation has emitted one error event and no info event.        *)
(***************************************************************************)
C5_InfoOnlyAfterValidation ==
    \A p \in Procs :
        Done(p) =>
            /\ result[p].tag = "Ok" =>
                   (Cardinality(Emitted(p, "info")) = 1 /\ Emitted(p, "error") = {})
            /\ result[p].tag = "Err" =>
                   (Cardinality(Emitted(p, "error")) = 1 /\ Emitted(p, "info") = {})

C5_Witness ==
    /\ \E p \in Procs :
        /\ Done(p) /\ result[p].tag = "Err"
        /\ Emitted(p, "error") # {} /\ Emitted(p, "info") = {}

(***************************************************************************)
(* C6: a finished invocation has emitted an error event if and only if it  *)
(* returned Err; the kind returned is that of the first check that         *)
(* failed; an invocation that returned Ok has emitted no error event; and  *)
(* no error event exists for an invocation that has not returned.          *)
(***************************************************************************)
FirstFailedCheck(p) ==
    IF is_empty(FirstArg(p)) THEN "InvalidContractAddress"
    ELSE IF is_empty(SecondArg(p)) THEN KindOfSecondArg(p)
    ELSE "none"

C6_NoErrorSwallowed ==
    \A p \in Procs :
        /\ Done(p) =>
            /\ (Emitted(p, "error") # {}) <=> (result[p].tag = "Err")
            /\ result[p].tag \in {"Ok", "Err"}
            /\ result[p].tag = "Err" => result[p].val = FirstFailedCheck(p)
            /\ result[p].tag = "Ok" => (FirstFailedCheck(p) = "none" /\ Emitted(p, "error") = {})
        /\ ~Done(p) => (result[p] = NoResult /\ Emitted(p, "error") = {})

C6_Witness ==
    \E p \in Procs :
        /\ Done(p) /\ IsFetch(p)
        /\ is_empty(FirstArg(p)) /\ is_empty(SecondArg(p))
        /\ result[p] = Err("InvalidContractAddress")
        /\ Emitted(p, "error") # {}

(***************************************************************************)
(* C7: under every interleaving of concurrent invocations, a finished      *)
(* invocation has returned the value and logged the events it produces     *)
(* when run alone with the same arguments, and an invocation that has      *)
(* started and not finished can always take its next step, whatever the    *)
(* other invocations are doing.                                            *)
(***************************************************************************)
C7_Independent ==
    \A p \in Procs :
        /\ Done(p) =>
            /\ result[p] = RunAlone(args[p]).result
            /\ [i \in 1..Len(EventsBy(p)) |-> EventsBy(p)[i].ev] = RunAlone(args[p]).events
        /\ pc[p] \notin {"idle", "done"} => ENABLED Step(p)

C7_Witness ==
    \E p, q \in Procs :
        /\ p # q /\ Done(p) /\ Done(q)
        /\ IsCall(p) /\ IsFetch(q)
        /\ result[p].tag = "Ok" /\ result[q].tag = "Err"
        /\ Len(log) >= 2 /\ log[1].by = q /\ log[2].by = p

(***************************************************************************)
(* C8: a successful fetch_contract_data returns a value that depends on    *)
(* the requested key: whenever a query has succeeded, there is another     *)
(* valid key for the same contract whose query yields a different payload. *)
(***************************************************************************)
C8_Original ==
    \A p \in Procs :
        (Done(p) /\ IsFetch(p) /\ result[p].tag = "Ok") =>
            \E k \in Strings :
                /\ k # SecondArg(p)
                /\ fetch_contract_data(FirstArg(p), k).result.tag = "Ok"
                /\ fetch_contract_data(FirstArg(p), k).result # result[p]

(***************************************************************************)
(* C9: every step of an invocation moves it forward along                  *)
(* address check -> name/key check -> info event -> success result; a      *)
(* failing check leads to its error and from there only to the end; a      *)
(* passing check never leads to an error; no stage is entered twice and a  *)
(* finished invocation takes no further step.  Events are emitted and the  *)
(* result is set only by the steps that own them.                          *)
(***************************************************************************)
ForwardEdges ==
    { <<"idle", "check_address">>,
      <<"check_address", "error_address">>, <<"check_address", "check_name">>,
      <<"error_address", "done">>,
      <<"check_name", "error_name">>, <<"check_name", "info">>,
      <<"error_name", "done">>,
      <<"info", "return_ok">>,
      <<"return_ok", "done">> }

StepInOrder(p) ==
    /\ pc'[p] # pc[p] => <<pc[p], pc'[p]>> \in ForwardEdges
    /\ pc[p] # "idle" => args'[p] = args[p]
    /\ (pc[p] = "check_address" /\ pc'[p] # pc[p]) =>
           (pc'[p] = "error_address" <=> is_empty(FirstArg(p)))
    /\ (pc[p] = "check_name" /\ pc'[p] # pc[p]) =>
           (pc'[p] = "error_name" <=> is_empty(SecondArg(p)))
    /\ result'[p] # result[p] =>
           /\ pc'[p] = "done"
           /\ result'[p].tag = (IF pc[p] = "return_ok" THEN "Ok" ELSE "Err")
    /\ EventsBy(p)' # EventsBy(p) =>
           /\ pc[p] \in {"error_address", "error_name", "info"}
           /\ Len(EventsBy(p)') = 1
    /\ pc'[p] = "return_ok" => Emitted(p, "info")' # {}

C9_StagesInOrder == [][\A p \in Procs : StepInOrder(p)]_vars

C9_Witness ==
    \E p \in Procs :
        /\ Done(p) /\ result[p].tag = "Ok"
        /\ Emitted(p, "info") # {}

(***************************************************************************)
(* C10: two finished call_contract_function invocations with the same      *)
(* contract_address and function_name have returned the same value,        *)
(* whatever their params and gas_limit; gas_limit shows up only as the     *)
(* third argument of the info event, and error events carry no argument.   *)
(***************************************************************************)
C10_ResultIgnoresParamsAndGas ==
    /\ \A p, q \in Procs :
        (/\ Done(p) /\ Done(q) /\ IsCall(p) /\ IsCall(q)
         /\ FirstArg(p) = FirstArg(q) /\ SecondArg(p) = SecondArg(q))
            => result[p] = result[q]
    /\ \A i \in 1..Len(log) :
        IsCall(log[i].by) =>
            IF log[i].ev.level = "info"
            THEN log[i].ev.fmt = <<SecondArg(log[i].by), FirstArg(log[i].by), args[log[i].by].gas_limit>>
            ELSE log[i].ev.fmt = <<>>

C10_Witness ==
    \E p, q \in Procs :
        /\ p # q /\ Done(p) /\ Done(q) /\ IsCall(p) /\ IsCall(q)
        /\ FirstArg(p) = FirstArg(q) /\ SecondArg(p) = SecondArg(q)
        /\ args[p].gas_limit = U64Zero /\ args[q].gas_limit = U64Max
        /\ args[p].params # args[q].params
        /\ result[p] = Ok(CallSuccessText) /\ result[q] = result[p]

====
